---- MODULE Spec2Model ----
(***************************************************************************)
(* A model of the PyVRP optimisation service (pyvrp-service/solver.py,     *)
(* models.py, main.py): one /solve request travelling through solve().     *)
(*                                                                         *)
(* Units.  Python floats are modelled by exact integers in a fixed unit:   *)
(*   distances     decimetres (dm, 1/10 m)                                 *)
(*   durations     seconds                                                 *)
(*   weight/volume/value   halves (1/2 of the caller's unit)               *)
(*   coordinates   integer grid steps; haversine_m is abstracted as a      *)
(*                 metric on that grid (2499 m per step)                   *)
(*   balance score thousandths                                             *)
(* An Optional[T] is <<>> (None) or <<x>>.  Indices keep the source's      *)
(* 0-based values; a sequence s is read at index i as s[i + 1].            *)
(***************************************************************************)
EXTENDS Integers, Sequences, FiniteSets, TLC

\* ---------------------------------------------------------------- bounds
MaxOrders == 2
MaxVehicles == 2

\* ------------------------------------------------------ program constants
DEFAULT_SPEED_CMPS == 833
ROAD_FACTOR_TENTHS == 13
BIG == 86400
TW_TOLERANCE == 1800
DEFAULT_SERVICE == 300
ORDERS_SENTINEL == 999
VALUE_SENTINEL == 100000
UNITS_SENTINEL == 1000
DEFAULT_TRAFFIC == 50
DEFAULT_TIMEOUT == 60
NUM_STARTS == 3
MULTI_START_OVER == 10
MIN_RUN_TIMEOUT == 5
SEED_STEP == 42

\* ------------------------------------------------------------- optionals
None == <<>>

Some(x) == <<x>>

Get(opt) == opt[1]

\* Python truthiness of an Optional[int]: None and 0 are falsy
Truthy(opt) == opt # None /\ Get(opt) # 0

Abs(x) == IF x < 0 THEN -x ELSE x

Max(a, b) == IF a >= b THEN a ELSE b

Min(a, b) == IF a <= b THEN a ELSE b

Range(s) == {s[i] : i \in 1..Len(s)}

RECURSIVE SumSeq(_)
SumSeq(s) == IF s = <<>> THEN 0 ELSE Head(s) + SumSeq(Tail(s))

\* int(round(x)) of a float x given in 1/den units: round half to even
PyRound(num, den) ==
    LET q == num \div den
        r == num % den
    IN  IF 2 * r < den THEN q
        ELSE IF 2 * r > den THEN q + 1
        ELSE IF q % 2 = 0 THEN q ELSE q + 1

\* math.ceil(a / b) for a >= 0, b > 0
CeilDiv(a, b) == (a + b - 1) \div b

\* ------------------------------------------------------------- haversine
\* haversine_m, in dm, between two <<lat, lng>> grid points
haversine_m(a, b) == 24990 * (Abs(a[1] - b[1]) + Abs(a[2] - b[2]))

\* ------------------------------------------------------ capacity helpers
detect_active_dimensions(os) ==
    (IF \E i \in 1..Len(os) : os[i].weight > 0 THEN <<"weight">> ELSE <<>>)
    \o (IF \E i \in 1..Len(os) : os[i].volume > 0 THEN <<"volume">> ELSE <<>>)
    \o (IF \E i \in 1..Len(os) : os[i].value # None /\ Get(os[i].value) > 0
        THEN <<"value">> ELSE <<>>)
    \o (IF \E i \in 1..Len(os) : os[i].units # None /\ Get(os[i].units) > 0
        THEN <<"units">> ELSE <<>>)
    \o <<"orders">>

\* limit = max_orders_override or (v.max_orders if v.max_orders else 999)
OrdersLimit(v, max_orders_override) ==
    IF Truthy(max_orders_override) THEN Get(max_orders_override)
    ELSE IF Truthy(v.max_orders) THEN Get(v.max_orders)
    ELSE ORDERS_SENTINEL

CapacityOf(v, d, max_orders_override) ==
    CASE d = "weight" -> PyRound(v.max_weight, 2)
      [] d = "volume" -> PyRound(v.max_volume, 2)
      [] d = "value" ->
            IF v.max_value # None THEN PyRound(Get(v.max_value), 2)
            ELSE VALUE_SENTINEL
      [] d = "units" ->
            IF v.max_units # None THEN Get(v.max_units) ELSE UNITS_SENTINEL
      [] d = "orders" -> OrdersLimit(v, max_orders_override)

capacity_vector(v, dims, max_orders_override) ==
    [k \in 1..Len(dims) |-> CapacityOf(v, dims[k], max_orders_override)]

DemandOf(o, d) ==
    CASE d = "weight" -> PyRound(o.weight, 2)
      [] d = "volume" -> PyRound(o.volume, 2)
      [] d = "value" -> IF o.value # None THEN PyRound(Get(o.value), 2) ELSE 0
      [] d = "units" -> IF o.units # None THEN Get(o.units) ELSE 0
      [] d = "orders" -> 1

delivery_vector(o, dims) == [k \in 1..Len(dims) |-> DemandOf(o, dims[k])]

\* ------------------------------------------------------------ time windows
\* a time string "HH:MM" is the pair <<h, m>>
to_secs(s) == s[1] * 3600 + s[2] * 60

\* mutant of parse_tw: (0, big) when either bound is missing
parse_tw_either_missing(start_str, end_str) ==
    IF start_str = None \/ end_str = None THEN <<0, BIG>>
    ELSE <<to_secs(Get(start_str)), to_secs(Get(end_str))>>

\* _parse_tw: seconds from midnight; a missing bound is 0 or big
parse_tw(start_str, end_str) ==
    IF start_str = None /\ end_str = None THEN <<0, BIG>>
    ELSE << IF start_str # None THEN to_secs(Get(start_str)) ELSE 0,
            IF end_str # None THEN to_secs(Get(end_str)) ELSE BIG >>

\* ------------------------------------------------------------ the request
\* models.py defaults: every field a request may leave out
Order(id, coord) ==
    [id |-> id, lat |-> coord[1], lng |-> coord[2], weight |-> 0, volume |-> 0,
     value |-> None, units |-> None, priority |-> None,
     time_window_start |-> None, time_window_end |-> None,
     service_time |-> Some(300), skills |-> <<>>]

Vehicle(id) ==
    [id |-> id, max_weight |-> 200, max_volume |-> 200, max_value |-> None,
     max_units |-> None, max_orders |-> None, origin_lat |-> None,
     origin_lng |-> None, skills |-> <<>>]

Depot ==
    [lat |-> 0, lng |-> 0, time_window_start |-> Some(<<8, 0>>),
     time_window_end |-> Some(<<18, 0>>)]

Config ==
    [depot |-> Depot, objective |-> "BALANCED", balance_visits |-> FALSE,
     traffic_factor |-> Some(DEFAULT_TRAFFIC), route_end_mode |-> Some("DRIVER_ORIGIN"),
     open_start |-> FALSE, flexible_time_windows |-> FALSE,
     timeout_seconds |-> DEFAULT_TIMEOUT]

SolveRequest(orders, vehicles, config) ==
    [orders |-> orders, vehicles |-> vehicles, config |-> config]

VARIABLES
    request,                  \* the SolveRequest being served
    pc,                       \* where solve() stands
    feasible_orders,          \* orders that passed the skills filter
    skill_unassigned,         \* UnassignedOrder entries of the skills filter
    depot_coords,             \* depot registry, main depot first
    vehicle_start_depot_idx,  \* per vehicle, 0-based index into depot_coords
    active_dims,              \* active capacity dimensions
    balanced_max_orders,      \* Optional[int]
    vehicle_types,            \* what m.add_vehicle_type received, per vehicle
    clients,                  \* what m.add_client received, per feasible order
    osrm_data,                \* result of _fetch_osrm_table
    edges,                    \* what m.add_edge received
    solution,                 \* the search engine's best solution
    response,                 \* Optional[SolveResponse]
    http_status,              \* status of POST /solve, 0 while in flight
    table_calls,              \* calls of _fetch_osrm_table so far
    engine_calls,             \* the m.solve calls so far: budget, seed, result
    best_solution,            \* multi-start: best solution so far, or None
    best_cost,                \* multi-start: its cost, None for float("inf")
    best_run                  \* multi-start: its run, 1-based, -1 for none

vars ==
    <<request, pc, feasible_orders, skill_unassigned, depot_coords,
      vehicle_start_depot_idx, active_dims, balanced_max_orders, vehicle_types,
      clients, osrm_data, edges, solution, response, http_status,
      table_calls, engine_calls, best_solution, best_cost, best_run>>

\* the locals of the search step
search_vars == <<engine_calls, best_solution, best_cost, best_run>>

orders == request.orders

vehicles == request.vehicles

cfg == request.config

\* ------------------------------------------------------- response helpers
UnassignedOrder(o, reason) == [order_id |-> o.id, reason |-> reason]

\* a reason is <<text, skills joined into the text>>
NoVehiclesReason == <<"No vehicles available", <<>> >>

SkillsReason(o) == <<"No vehicle has required skills: ", o.skills>>

CapacityReason ==
    <<"Could not fit in any vehicle route (capacity/time constraints)", <<>> >>

\* Metrics(...) without balance_score: the field keeps its default, None
ZeroMetrics ==
    [total_distance |-> 0, total_duration |-> 0, total_routes |-> 0,
     total_stops |-> 0, balance_score |-> None]

SolveResponse(routes, unassigned, metrics) ==
    [routes |-> routes, unassigned |-> unassigned, metrics |-> metrics]

\* mutant of empty_response: the idle vehicles counted as routes
EmptyResponseCountingVehicles(vs) ==
    SolveResponse(<<>>, <<>>, [ZeroMetrics EXCEPT !.total_routes = Len(vs)])

\* _empty_response: no route, nothing unassigned, zero metrics
empty_response(vs) == SolveResponse(<<>>, <<>>, ZeroMetrics)

\* mutant of NoVehiclesResponse: the skills reason given to skilled orders
NoVehiclesAfterSkills(os) ==
    SolveResponse(<<>>,
                  [i \in 1..Len(os) |->
                      UnassignedOrder(os[i], IF os[i].skills # <<>> THEN SkillsReason(os[i])
                                             ELSE NoVehiclesReason)],
                  ZeroMetrics)

\* the no-vehicles return: every order unassigned with one reason
NoVehiclesResponse(os) ==
    SolveResponse(<<>>,
                  [i \in 1..Len(os) |-> UnassignedOrder(os[i], NoVehiclesReason)],
                  ZeroMetrics)

\* ------------------------------------------------------- skills filtering
\* set(v.skills) if v.skills else set()
VehicleSkillSet(v) == Range(v.skills)

\* mutant of SkillFeasible: the subset test turned round (vs <= required)
SkillFeasibleReversed(o, vs) ==
    \/ o.skills = <<>>
    \/ \E j \in 1..Len(vs) : VehicleSkillSet(vs[j]) \subseteq Range(o.skills)

\* not (o.skills and not any(required <= vs for vs in vehicle_skills))
SkillFeasible(o, vs) ==
    \/ o.skills = <<>>
    \/ \E j \in 1..Len(vs) : Range(o.skills) \subseteq VehicleSkillSet(vs[j])

FeasibleOrders(os, vs) == SelectSeq(os, LAMBDA o : SkillFeasible(o, vs))

RECURSIVE SkillUnassigned(_, _)
SkillUnassigned(os, vs) ==
    IF os = <<>> THEN <<>>
    ELSE (IF SkillFeasible(Head(os), vs) THEN <<>>
          ELSE <<UnassignedOrder(Head(os), SkillsReason(Head(os)))>>)
         \o SkillUnassigned(Tail(os), vs)

\* ---------------------------------------------------------- depot registry
\* round(x, 6) of a coordinate given in half micro-degrees
Round6(x) == 2 * PyRound(x, 2)

\* mutant of depot_key: the coordinate as it is
depot_key_unrounded(c) == c

\* (round(lat, 6), round(lng, 6))
depot_key(c) == <<Round6(c[1]), Round6(c[2])>>

\* depot_coord_to_idx[key], 0-based, or -1 when the key is not registered
DepotIdxOf(coords, key) ==
    LET hit == {i \in 1..Len(coords) : depot_key(coords[i]) = key}
    IN  IF hit = {} THEN -1 ELSE (CHOOSE i \in hit : TRUE) - 1

HasOrigin(v) == v.origin_lat # None /\ v.origin_lng # None

Origin(v) == <<Get(v.origin_lat), Get(v.origin_lng)>>

\* the loop over vehicles: the registry and each vehicle's start depot index
RECURSIVE RegisterDepots(_, _, _)
RegisterDepots(vs, coords, idxs) ==
    IF vs = <<>> THEN [depot_coords |-> coords, vehicle_start_depot_idx |-> idxs]
    ELSE LET v == Head(vs)
         IN  IF HasOrigin(v)
             THEN LET key == depot_key(Origin(v))
                      known == DepotIdxOf(coords, key)
                  IN  IF known = -1
                      THEN RegisterDepots(Tail(vs), Append(coords, Origin(v)),
                                          Append(idxs, Len(coords)))
                      ELSE RegisterDepots(Tail(vs), coords, Append(idxs, known))
             ELSE RegisterDepots(Tail(vs), coords, Append(idxs, 0))

DepotRegistry(c, vs) == RegisterDepots(vs, <<<<c.depot.lat, c.depot.lng>>>>, <<>>)

\* ------------------------------------------------------------- balancing
BalancedMaxOrders(c, nFeasible, nVehicles) ==
    IF c.balance_visits /\ nVehicles > 0
    THEN Some(CeilDiv(nFeasible, nVehicles) + 1)
    ELSE None

\* effective_max: the balanced cap, or the vehicle's own when that is smaller
EffectiveMax(v, balanced) ==
    IF Truthy(v.max_orders) /\ (balanced = None \/ Get(v.max_orders) < Get(balanced))
    THEN v.max_orders
    ELSE balanced

\* --------------------------------------------------------- route end mode
IsOpenEnd(c) == c.route_end_mode = Some("OPEN_END")

UseDriverReturn(c) ==
    \/ c.route_end_mode = Some("DRIVER_ORIGIN")
    \/ c.route_end_mode \notin
          {Some("RETURN_TO_DEPOT"), Some("SPECIFIC_DEPOT"), Some("OPEN_END")}

\* mutant of EndDepotOf: the main depot under RETURN_TO_DEPOT only
EndDepotMainOnReturnOnly(c, start_didx) ==
    IF c.route_end_mode = Some("RETURN_TO_DEPOT") THEN 0 ELSE start_didx

\* end depot index of a vehicle type whose start depot index is start_didx
EndDepotOf(c, start_didx) ==
    IF IsOpenEnd(c) THEN start_didx
    ELSE IF UseDriverReturn(c) THEN start_didx
    ELSE 0

DepotTw(c) == parse_tw(c.depot.time_window_start, c.depot.time_window_end)

UnitCosts(c) ==
    CASE c.objective = "DISTANCE" -> <<1, 0>>
      [] c.objective = "TIME" -> <<0, 1>>
      [] OTHER -> <<1, 1>>

VehicleType(c, v, v_idx, dims, balanced, start_didx) ==
    [name |-> v_idx,
     capacity |-> capacity_vector(v, dims, EffectiveMax(v, balanced)),
     start_depot |-> start_didx,
     end_depot |-> EndDepotOf(c, start_didx),
     tw_early |-> IF c.open_start THEN 0 ELSE DepotTw(c)[1],
     tw_late |-> DepotTw(c)[2],
     unit_distance_cost |-> UnitCosts(c)[1],
     unit_duration_cost |-> UnitCosts(c)[2]]

\* ----------------------------------------------------------------- clients
TwTolerance(c) == IF c.flexible_time_windows THEN TW_TOLERANCE ELSE 0

ServiceDur(o) == IF Truthy(o.service_time) THEN Get(o.service_time) ELSE DEFAULT_SERVICE

Client(c, o, dims) ==
    LET tw == parse_tw(o.time_window_start, o.time_window_end)
        tol == TwTolerance(c)
    IN  [name |-> o.id,
         delivery |-> delivery_vector(o, dims),
         service_duration |-> ServiceDur(o),
         tw_early |-> IF tol # 0 THEN Max(0, tw[1] - tol) ELSE tw[1],
         tw_late |-> IF tol # 0 THEN tw[2] + tol ELSE tw[2],
         prize |-> IF o.priority # None /\ Get(o.priority) > 0
                   THEN Get(o.priority) * 1000 ELSE 0,
         required |-> TRUE]

\* ------------------------------------------------ distances and durations
\* speed_mult = max(0.1, 1.5 - tf / 100), in percent
SpeedMultPct(c) ==
    LET tf == IF c.traffic_factor # None THEN Get(c.traffic_factor) ELSE DEFAULT_TRAFFIC
    IN  Max(10, 150 - tf)

\* dur * duration_mult, duration_mult = 1 / speed_mult
ApplyTraffic(c, dur) == (dur * 100) \div SpeedMultPct(c)

\* haversine_m(a, b) * road_factor, in dm
GeoDist(a, b) == (haversine_m(a, b) * ROAD_FACTOR_TENTHS) \div 10

\* dist / DEFAULT_SPEED_MPS, in seconds, of a distance in dm
GeoTime(dist) == (dist * 10) \div DEFAULT_SPEED_CMPS

\* all_lats / all_lngs: depots in registry order, then the feasible orders
AllCoords(dcs, fos) == dcs \o [i \in 1..Len(fos) |-> <<fos[i].lat, fos[i].lng>>]

\* m[i][j] of a list of lists, 0-based
Cell(m, i, j) == m[i + 1][j + 1]

\* ------------------------------------------------- the routing-table call
\* what the road-network service is taken to answer for a coordinate pair
RoadDist(a, b) == 40000 * (Abs(a[1] - b[1]) + Abs(a[2] - b[2]))

RoadTime(a, b) == 450 * (Abs(a[1] - b[1]) + Abs(a[2] - b[2]))

\* a matrix cell for the pair a, b: kind is "durations" or "distances"
RoadCell(kind, a, b) == IF kind = "durations" THEN RoadTime(a, b) ELSE RoadDist(a, b)

FullMatrix(coords, kind) ==
    [i \in 1..Len(coords) |->
        [j \in 1..Len(coords) |-> Some(RoadCell(kind, coords[i], coords[j]))]]

\* the last location is unreachable: null cells
HoledMatrix(coords, kind) ==
    [i \in 1..Len(coords) |-> [j \in 1..Len(coords) |->
        IF i # j /\ (i = Len(coords) \/ j = Len(coords)) THEN None
        ELSE Some(RoadCell(kind, coords[i], coords[j]))]]

\* one row and one column short
ShortMatrix(coords, kind) == FullMatrix(SubSeq(coords, 1, Len(coords) - 1), kind)

TableReply(raises, status_code, code, keys, durations, distances) ==
    [raises |-> raises, status_code |-> status_code, code |-> code, keys |-> keys,
     durations |-> durations, distances |-> distances]

\* the answers of httpx.get(.../table/...) the model lets the service give
TableReplies(coords) ==
    LET full == FullMatrix(coords, "durations")
        fulld == FullMatrix(coords, "distances")
        both == {"durations", "distances"}
    IN  { TableReply(TRUE, 0, "", {}, None, None),
          TableReply(FALSE, 503, "", {}, None, None),
          TableReply(FALSE, 200, "NoTable", both, None, None),
          TableReply(FALSE, 200, "Ok", {"durations"}, full, None),
          TableReply(FALSE, 200, "Ok", both, full, fulld),
          TableReply(FALSE, 200, "Ok", both,
                     HoledMatrix(coords, "durations"),
                     HoledMatrix(coords, "distances")),
          TableReply(FALSE, 200, "Ok", both, None, None),
          TableReply(FALSE, 200, "Ok", both,
                     ShortMatrix(coords, "durations"),
                     ShortMatrix(coords, "distances")) }

\* Optional[(durations, distances)]
fetch_osrm_table(reply) ==
    IF reply.raises THEN None
    ELSE IF reply.status_code # 200 THEN None
    ELSE IF reply.code # "Ok" THEN None
    ELSE IF ~({"durations", "distances"} \subseteq reply.keys) THEN None
    ELSE Some([durations |-> reply.durations, distances |-> reply.distances])

UseOsrm(data) == data # None

\* m[i][j] raises (TypeError on None, IndexError on a short list)
Subscriptable(m, i, j) == m # None /\ i < Len(m) /\ j < Len(m[i + 1])

\* the edge loop reads durations_matrix[i][j] and distances_matrix[i][j]
\* for every i # j in range(n)
EdgeReadsOk(data, n) ==
    \A i, j \in 0..(n - 1) :
        i # j => /\ Subscriptable(Get(data).durations, i, j)
                 /\ Subscriptable(Get(data).distances, i, j)

\* (dist, dur) of the pair of locations i, j: matrix cell, or the geodesic
\* formula when OSRM is off or the cell is null; traffic applied to dur
LegCost(c, data, i, j, ci, cj) ==
    IF UseOsrm(data)
    THEN LET dur == Cell(Get(data).durations, i, j)
             dist == Cell(Get(data).distances, i, j)
         IN  IF dur = None \/ dist = None
             THEN <<GeoDist(ci, cj), ApplyTraffic(c, GeoTime(GeoDist(ci, cj)))>>
             ELSE <<Get(dist), ApplyTraffic(c, Get(dur))>>
    ELSE <<GeoDist(ci, cj), ApplyTraffic(c, GeoTime(GeoDist(ci, cj)))>>

\* mutant of Edge: int(x) in place of int(round(x))
EdgeTruncated(c, data, coords, i, j) ==
    IF i = j THEN [distance |-> 0, duration |-> 0]
    ELSE LET lc == LegCost(c, data, i, j, coords[i + 1], coords[j + 1])
         IN  [distance |-> lc[1] \div 10, duration |-> lc[2]]

\* m.add_edge(..., distance=int(round(dist)), duration=int(round(dur)))
Edge(c, data, coords, i, j) ==
    IF i = j THEN [distance |-> 0, duration |-> 0]
    ELSE LET lc == LegCost(c, data, i, j, coords[i + 1], coords[j + 1])
         IN  [distance |-> PyRound(lc[1], 10), duration |-> PyRound(lc[2], 1)]

Edges(c, data, coords) ==
    [i \in 0..(Len(coords) - 1) |->
        [j \in 0..(Len(coords) - 1) |-> Edge(c, data, coords, i, j)]]

\* -------------------------------------------------------- the search engine
\* every ordering of the set S as a sequence
RECURSIVE Perms(_)
Perms(S) ==
    IF S = {} THEN {<<>>}
    ELSE UNION {{<<x>> \o q : q \in Perms(S \ {x})} : x \in S}

\* load of a visit list (0-based client indices) in dimension k
Load(cls, visits, k) == SumSeq([x \in 1..Len(visits) |-> cls[visits[x] + 1].delivery[k]])

\* the engine keeps every route within its vehicle type's capacity vector
WithinCapacity(vt, cls, visits) ==
    \A k \in 1..Len(vt.capacity) : Load(cls, visits, k) <= vt.capacity[k]

\* solution.routes(): the non-empty routes, by vehicle type; a visit is a
\* location index, clients following the depots
RECURSIVE RoutesOf(_, _, _)
RoutesOf(plan, v, nd) ==
    IF v > Len(plan) THEN <<>>
    ELSE (IF plan[v] = <<>> THEN <<>>
          ELSE <<[vehicle_type |-> v - 1,
                  visits |-> [x \in 1..Len(plan[v]) |-> plan[v][x] + nd]]>>)
         \o RoutesOf(plan, v + 1, nd)

\* the visit lists of vehicle types v.. when assign[c] names the vehicle
\* type (0: none) that visits client c
RECURSIVE Plans(_, _, _)
Plans(assign, v, nv) ==
    IF v > nv THEN {<<>>}
    ELSE {<<q>> \o rest :
            q \in Perms({c \in DOMAIN assign : assign[c] = v}),
            rest \in Plans(assign, v + 1, nv)}

\* every solution the engine may return for the model: each vehicle type
\* used at most once (num_available = 1), each client visited at most once,
\* capacities kept; no route at all stands for "no solution"
Solutions(vts, cls, nd) ==
    LET plans == UNION {Plans(assign, 1, Len(vts)) :
                          assign \in [0..(Len(cls) - 1) -> 0..Len(vts)]}
        kept == {p \in plans :
                    \A v \in 1..Len(vts) : WithinCapacity(vts[v], cls, p[v])}
    IN  {RoutesOf(p, 1, nd) : p \in kept}

\* ------------------------------------------------------------------ search
\* base_timeout and timeout of solve(): the configured budget, cut down for
\* small instances
BaseTimeout(c) == IF c.timeout_seconds > 0 THEN c.timeout_seconds ELSE DEFAULT_TIMEOUT

SolveTimeout(c, n_clients) ==
    IF n_clients <= 3 THEN Min(BaseTimeout(c), 5)
    ELSE IF n_clients <= 10 THEN Min(BaseTimeout(c), 15)
    ELSE IF n_clients <= 30 THEN Min(BaseTimeout(c), 30)
    ELSE IF n_clients <= 100 THEN Min(BaseTimeout(c), 60)
    ELSE BaseTimeout(c)

\* use_multi_start = n_clients > 10
UseMultiStart(n_clients) == n_clients > MULTI_START_OVER

\* mutant of RunTimeout: no floor of 5 seconds
RunTimeoutNoFloor(c, n_clients) == SolveTimeout(c, n_clients) \div NUM_STARTS

\* run_timeout = max(5, timeout // NUM_STARTS)
RunTimeout(c, n_clients) == Max(MIN_RUN_TIMEOUT, SolveTimeout(c, n_clients) \div NUM_STARTS)

\* seed = run * 42 + 1, run counted from 0
Seed(run) == run * SEED_STEP + 1

\* one m.solve call as the log keeps it: the budget of MaxRuntime, the seed
\* (None when the call passes none) and result.best
EngineCall(budget, seed, sol) == [timeout |-> budget, seed |-> seed, result |-> sol]

\* the locations a route passes: its vehicle type's start depot, the
\* visits, the end depot
RoutePath(vts, r) ==
    <<vts[r.vehicle_type + 1].start_depot>> \o r.visits
        \o <<vts[r.vehicle_type + 1].end_depot>>

\* sol.distance(): the edge distances along every route
SolDistance(vts, es, sol) ==
    SumSeq([i \in 1..Len(sol) |->
              LET path == RoutePath(vts, sol[i])
              IN  SumSeq([k \in 1..(Len(path) - 1) |->
                            es[path[k]][path[k + 1]].distance])])

\* sol.duration(): the edge durations and the service durations along every
\* route (clients without a window make no route wait)
SolDuration(vts, cls, es, nd, sol) ==
    SumSeq([i \in 1..Len(sol) |->
              LET path == RoutePath(vts, sol[i])
              IN  SumSeq([k \in 1..(Len(path) - 1) |->
                            es[path[k]][path[k + 1]].duration])
                  + SumSeq([k \in 1..Len(sol[i].visits) |->
                              cls[sol[i].visits[k] - nd + 1].service_duration])])

\* cost of a run's solution, by objective
RunCost(c, vts, cls, es, nd, sol) ==
    IF c.objective = "DISTANCE" THEN SolDistance(vts, es, sol)
    ELSE IF c.objective = "TIME" THEN SolDuration(vts, cls, es, nd, sol)
    ELSE SolDistance(vts, es, sol) + SolDuration(vts, cls, es, nd, sol)

\* mutant of Improves: cost <= best_cost
ImprovesOrTies(cost, best) == best = None \/ cost <= Get(best)

\* cost < best_cost, best_cost starting at float("inf")
Improves(cost, best) == best = None \/ cost < Get(best)

\* for an instance too large to enumerate, a sample of what the engine may
\* return: no solution, and the first vehicle type visiting every client in
\* index order, in reverse order, with neighbours swapped, or the last
\* client alone
SampleVisits(n) ==
    { [k \in 1..n |-> k - 1],
      [k \in 1..n |-> n - k],
      [k \in 1..n |-> IF k % 2 = 0 THEN k - 2 ELSE IF k < n THEN k ELSE k - 1],
      <<n - 1>> }

SampleSolutions(vts, cls, nd) ==
    {<<>>} \cup
    { RoutesOf(<<q>>, 1, nd) :
        q \in {q \in SampleVisits(Len(cls)) : WithinCapacity(vts[1], cls, q)} }

\* result.best of one m.solve call
EngineResults(vts, cls, nd) ==
    IF Len(cls) <= MaxOrders THEN Solutions(vts, cls, nd)
    ELSE SampleSolutions(vts, cls, nd)

\* ---------------------------------------------------- route reconstruction
\* what the walk needs of solve()'s locals
Ctx(c, data, dcs, fos) ==
    [c |-> c, data |-> data, nd |-> Len(dcs), fos |-> fos, coords |-> AllCoords(dcs, fos)]

\* leg_dist, leg_time of the leg prev -> loc (location indices)
ReconLeg(ctx, prev, loc) ==
    LET a == ctx.coords[prev + 1]
        b == ctx.coords[loc + 1]
    IN  IF UseOsrm(ctx.data)
        THEN LET d == Cell(Get(ctx.data).distances, prev, loc)
                 t == Cell(Get(ctx.data).durations, prev, loc)
             IN  IF d = None \/ t = None
                 THEN <<GeoDist(a, b), ApplyTraffic(ctx.c, GeoTime(GeoDist(a, b)))>>
                 ELSE <<Get(d), ApplyTraffic(ctx.c, Get(t))>>
        ELSE <<GeoDist(a, b), ApplyTraffic(ctx.c, GeoTime(GeoDist(a, b)))>>

\* clock += leg_time; the stop's arrival_time is this clock
ArrivalClock(clock, leg_time) == clock + leg_time

\* wait = max(0, tw_start - clock)
WaitingTime(o, clock) == Max(0, parse_tw(o.time_window_start, o.time_window_end)[1] - clock)

\* mutant of DepartClock: the wait is not added to the clock
DepartClockNoWait(clock, wait, svc) == clock + svc

\* clock += wait + svc
DepartClock(clock, wait, svc) == clock + wait + svc

\* the loop over client_indices from position k (1-based) with the clock as
\* it stands before the leg; one record per stop
RECURSIVE Walk(_, _, _, _, _)
Walk(ctx, visits, k, start_didx, clock) ==
    IF k > Len(visits) THEN <<>>
    ELSE LET loc == visits[k]
             o == ctx.fos[(loc - ctx.nd) + 1]
             prev == IF k = 1 THEN start_didx ELSE visits[k - 1]
             leg == ReconLeg(ctx, prev, loc)
             arrival == ArrivalClock(clock, leg[2])
             wait == WaitingTime(o, arrival)
             svc == ServiceDur(o)
         IN  <<[order |-> o, leg_dist |-> leg[1], leg_time |-> leg[2],
                stop |-> [order_id |-> o.id, lat |-> o.lat, lng |-> o.lng,
                          sequence |-> k, arrival_time |-> arrival,
                          service_time |-> svc, waiting_time |-> wait]]>>
             \o Walk(ctx, visits, k + 1, start_didx, DepartClock(arrival, wait, svc))

\* mutant of ReturnDidx: every vehicle returns to its own start
ReturnDidxOwnStart(c, start_didx) == start_didx

\* end_didx = start_didx if use_driver_return else 0
ReturnDidx(c, start_didx) == IF UseDriverReturn(c) THEN start_didx ELSE 0

\* the return leg: None for OPEN_END, else [end_didx, dist, time]
ReturnLeg(ctx, visits, start_didx) ==
    IF IsOpenEnd(ctx.c) THEN None
    ELSE LET end_didx == ReturnDidx(ctx.c, start_didx)
             last == IF visits # <<>> THEN visits[Len(visits)] ELSE start_didx
             leg == ReconLeg(ctx, last, end_didx)
         IN  Some([end_didx |-> end_didx, dist |-> leg[1], time |-> leg[2]])

\* route_lats / route_lngs: origin, stops, and the return point if any
RouteCoords(ctx, steps, start_didx, ret) ==
    <<ctx.coords[start_didx + 1]>>
    \o [k \in 1..Len(steps) |-> <<steps[k].order.lat, steps[k].order.lng>>]
    \o (IF ret = None THEN <<>> ELSE <<ctx.coords[Get(ret).end_didx + 1]>>)

\* _fetch_osrm_route: None under two points, else what the service answers
fetch_osrm_route(coords, reply) == IF Len(coords) < 2 THEN None ELSE reply

RouteReplies == {None, Some("polyline")}

\* one Route of the response, from one route of the solution; route_coords
\* keeps the coordinate list handed to the geometry call
Route(ctx, vs, vts, starts, tw0, r, reply) ==
    LET v_idx == vts[r.vehicle_type + 1].name
        start_didx == starts[v_idx + 1]
        steps == Walk(ctx, r.visits, 1, start_didx, tw0)
        ret == ReturnLeg(ctx, r.visits, start_didx)
        dist == SumSeq([k \in 1..Len(steps) |-> steps[k].leg_dist])
                + (IF ret = None THEN 0 ELSE Get(ret).dist)
        travel == SumSeq([k \in 1..Len(steps) |-> steps[k].leg_time])
                  + (IF ret = None THEN 0 ELSE Get(ret).time)
        service == SumSeq([k \in 1..Len(steps) |-> steps[k].stop.service_time])
        rcoords == RouteCoords(ctx, steps, start_didx, ret)
    IN  [vehicle_id |-> vs[v_idx + 1].id,
         stops |-> [k \in 1..Len(steps) |-> steps[k].stop],
         total_distance |-> dist,
         total_duration |-> travel + service,
         total_service_time |-> service,
         total_travel_time |-> travel,
         total_weight |-> SumSeq([k \in 1..Len(steps) |-> steps[k].order.weight]),
         total_volume |-> SumSeq([k \in 1..Len(steps) |-> steps[k].order.volume]),
         geometry |-> IF UseOsrm(ctx.data) THEN fetch_osrm_route(rcoords, reply)
                      ELSE None,
         route_coords |-> rcoords]

\* ------------------------------------------------------ response assembly
AssignedOrderIds(routes) ==
    UNION {{routes[i].stops[k].order_id : k \in 1..Len(routes[i].stops)} :
           i \in 1..Len(routes)}

\* mutant of Unassigned: the skills entries left out
UnassignedWithoutSkills(skilled, fos, assigned) ==
    LET left == SelectSeq(fos, LAMBDA o : o.id \notin assigned)
    IN  [i \in 1..Len(left) |-> UnassignedOrder(left[i], CapacityReason)]

\* list(skill_unassigned), then every feasible order no route visits
Unassigned(skilled, fos, assigned) ==
    skilled \o
    LET left == SelectSeq(fos, LAMBDA o : o.id \notin assigned)
    IN  [i \in 1..Len(left) |-> UnassignedOrder(left[i], CapacityReason)]

\* floor(sqrt(x)), searched in lo..hi
RECURSIVE ISqrtIn(_, _, _)
ISqrtIn(x, lo, hi) ==
    IF lo >= hi THEN lo
    ELSE LET mid == (lo + hi + 1) \div 2
         IN  IF mid * mid <= x THEN ISqrtIn(x, mid, hi) ELSE ISqrtIn(x, lo, mid - 1)

ISqrt(x) == ISqrtIn(x, 0, 46340)

\* max(0, 1 - cv / 2) of the stop counts, rounded to thousandths, where
\* cv = sqrt(variance) / mean = sqrt(n * sum(c^2) - total^2) / total
compute_balance_score(counts) ==
    LET n == Len(counts)
        total == SumSeq(counts)
        q == n * SumSeq([i \in 1..n |-> counts[i] * counts[i]]) - total * total
    IN  IF n = 0 THEN 1000
        ELSE IF total = 0 THEN 1000
        ELSE IF q >= 4 * total * total THEN 0
        ELSE 1000 - ((ISqrt(1000000 * q) + total) \div (2 * total))

BalanceScore(routes) ==
    IF Len(routes) > 1
    THEN compute_balance_score([i \in 1..Len(routes) |-> Len(routes[i].stops)])
    ELSE 1000

MetricsOf(routes) ==
    [total_distance |-> SumSeq([i \in 1..Len(routes) |-> routes[i].total_distance]),
     total_duration |-> SumSeq([i \in 1..Len(routes) |-> routes[i].total_duration]),
     total_routes |-> Len(routes),
     total_stops |-> SumSeq([i \in 1..Len(routes) |-> Len(routes[i].stops)]),
     balance_score |-> Some(BalanceScore(routes))]

\* ------------------------------------------------------- requests served
\* order i lies 2 * i grid steps north of the main depot, vehicle j's own
\* origin 2 * j steps east of it
OrderCoord(i) == <<2 * i, 0>>

OriginCoord(j) == <<0, 2 * j>>

OrderSkillChoices == {<<>>, <<"cold", "fragile">>}

VehicleSkillChoices == {<<>>, <<"fragile", "cold">>}

SkillOrders(n) ==
    {[i \in 1..n |-> [Order(i, OrderCoord(i)) EXCEPT !.skills = sk[i]]] :
        sk \in [1..n -> OrderSkillChoices]}

SkillVehicles(n) ==
    {[j \in 1..n |-> [Vehicle(j) EXCEPT !.skills = sk[j]]] :
        sk \in [1..n -> VehicleSkillChoices]}

\* requests that differ in skills only
SkillRequests ==
    {SolveRequest(os, vs, Config) :
        os \in UNION {SkillOrders(n) : n \in 0..MaxOrders},
        vs \in UNION {SkillVehicles(n) : n \in 0..MaxVehicles}}

\* the three early ways out of solve(): no orders, no vehicles, no feasible order
BaseRequests ==
    { SolveRequest(<<>>, <<Vehicle(1)>>, Config),
      SolveRequest(<<Order(1, OrderCoord(1))>>, <<>>, Config),
      SolveRequest(<<[Order(1, OrderCoord(1)) EXCEPT !.skills = <<"cold">>]>>,
                   <<Vehicle(1)>>, Config) }

\* a request large enough for multi-start: one order over the threshold,
\* one vehicle, the default configuration
LargeOrders == [i \in 1..(MULTI_START_OVER + 1) |-> Order(i, OrderCoord(i))]

LargeRequests == { SolveRequest(LargeOrders, <<Vehicle(1)>>, Config) }

\* requests for the search step: n orders in a row, one vehicle, the
\* configured budget and the objective; <<n, timeout_seconds, objective>>
SearchOrders(n) == [i \in 1..n |-> Order(i, OrderCoord(i))]

SearchConfig(budget, objective) ==
    [Config EXCEPT !.timeout_seconds = budget, !.objective = objective]

SearchCases ==
    { <<3, 0, "BALANCED">>, <<3, 4, "BALANCED">>, <<3, 20, "BALANCED">>,
      <<4, 4, "BALANCED">>, <<4, 20, "BALANCED">>,
      <<10, 20, "BALANCED">>, <<10, -1, "DISTANCE">>,
      <<11, 0, "BALANCED">>, <<11, 4, "DISTANCE">>, <<11, 20, "TIME">>,
      <<11, 45, "COST">>, <<11, 12, "TIME">>,
      <<30, 45, "DISTANCE">>, <<31, 45, "TIME">>, <<31, 90, "BALANCED">>,
      <<100, 90, "BALANCED">>, <<101, 90, "DISTANCE">> }

SearchRequests ==
    { SolveRequest(SearchOrders(sc[1]), <<Vehicle(1)>>, SearchConfig(sc[2], sc[3])) :
        sc \in SearchCases }

\* order i with or without a time window, and its own service time
\* (0 for every third order)
RouteOrder(i, windows) ==
    [Order(i, OrderCoord(i)) EXCEPT
        !.time_window_start = IF windows THEN Some(<<8 + i, 0>>) ELSE None,
        !.time_window_end = IF windows /\ i % 2 = 0 THEN Some(<<17, 0>>) ELSE None,
        !.service_time = Some(300 * (i % 3))]

\* with own, the odd vehicles start from their own origin
RouteVehicle(j, own) ==
    [Vehicle(j) EXCEPT
        !.origin_lat = IF own /\ j % 2 = 1 THEN Some(OriginCoord(j)[1]) ELSE None,
        !.origin_lng = IF own /\ j % 2 = 1 THEN Some(OriginCoord(j)[2]) ELSE None]

RouteConfigs ==
    {[Config EXCEPT !.route_end_mode = mt[1], !.traffic_factor = mt[2]] :
        mt \in {<<Some("RETURN_TO_DEPOT"), Some(50)>>, <<Some("OPEN_END"), Some(100)>>,
                <<Some("DRIVER_ORIGIN"), Some(0)>>, <<None, None>>,
                <<Some("SPECIFIC_DEPOT"), Some(50)>>, <<Some("ROUND_TRIP"), Some(50)>>}}

\* requests that differ in time windows, origins, route end mode and traffic
RouteRequests ==
    {SolveRequest([i \in 1..no |-> RouteOrder(i, windows)],
                  [j \in 1..nv |-> RouteVehicle(j, own)], c) :
        no \in 1..MaxOrders, nv \in 1..MaxVehicles,
        windows \in BOOLEAN, own \in BOOLEAN, c \in RouteConfigs}

\* origins of a vehicle: none, a latitude alone, and points of which the
\* first rounds to the main depot and the next two round alike
DepotOriginChoices ==
    { <<None, None>>, <<Some(0), None>>, <<Some(0), Some(1)>>,
      <<Some(0), Some(3)>>, <<Some(0), Some(4)>>, <<Some(4), Some(1)>> }

DepotVehicles(nv) ==
    {[j \in 1..nv |-> [Vehicle(j) EXCEPT !.origin_lat = og[j][1],
                                         !.origin_lng = og[j][2]]] :
        og \in [1..nv -> DepotOriginChoices]}

\* requests that differ in the vehicles' origins
DepotRequests ==
    {SolveRequest(<<Order(1, OrderCoord(1))>>, vs, Config) :
        vs \in UNION {DepotVehicles(nv) : nv \in 1..MaxVehicles}}

\* windows of an order: none, a start within the tolerance of midnight, a
\* start and an end, an end alone
WindowChoices ==
    { <<None, None>>, <<Some(<<0, 15>>), None>>,
      <<Some(<<9, 0>>), Some(<<17, 0>>)>>, <<None, Some(<<12, 0>>)>> }

WindowOrders(no) ==
    {[i \in 1..no |-> [Order(i, OrderCoord(i)) EXCEPT !.time_window_start = tw[i][1],
                                                       !.time_window_end = tw[i][2]]] :
        tw \in [1..no -> WindowChoices]}

\* requests that differ in the orders' windows and in flexible_time_windows
WindowRequests ==
    {SolveRequest(os, <<Vehicle(1)>>, [Config EXCEPT !.flexible_time_windows = flex]) :
        os \in UNION {WindowOrders(no) : no \in 1..MaxOrders}, flex \in BOOLEAN}

\* demands: none; weight 0.5; weight 1.5 and one unit; weight 1 and value 1.5
CapOrderChoices(i) ==
    { Order(i, OrderCoord(i)),
      [Order(i, OrderCoord(i)) EXCEPT !.weight = 1],
      [Order(i, OrderCoord(i)) EXCEPT !.weight = 3, !.units = Some(1)],
      [Order(i, OrderCoord(i)) EXCEPT !.weight = 2, !.value = Some(3)] }

\* ceilings: weight 1; weight 1.5 and one unit; weight 2, value 2 and one order
CapVehicleChoices(j) ==
    { [Vehicle(j) EXCEPT !.max_weight = 2],
      [Vehicle(j) EXCEPT !.max_weight = 3, !.max_units = Some(1)],
      [Vehicle(j) EXCEPT !.max_weight = 4, !.max_value = Some(4),
                         !.max_orders = Some(1)] }

\* sequences of length n whose i-th entry is drawn from choices(i)
CapOrders(n) ==
    {os \in [1..n -> UNION {CapOrderChoices(i) : i \in 1..n}] :
        \A i \in 1..n : os[i] \in CapOrderChoices(i)}

CapVehicles(n) ==
    {vs \in [1..n -> UNION {CapVehicleChoices(j) : j \in 1..n}] :
        \A j \in 1..n : vs[j] \in CapVehicleChoices(j)}

\* requests that differ in demands and ceilings
CapRequests ==
    {SolveRequest(os, vs, Config) :
        os \in UNION {CapOrders(n) : n \in 1..MaxOrders},
        vs \in UNION {CapVehicles(n) : n \in 1..MaxVehicles}}

BalMaxOrderChoices == {None, Some(0), Some(1), Some(2)}

\* requests with balance_visits on or off that differ in max_orders
BalRequests ==
    {SolveRequest([i \in 1..no |-> Order(i, OrderCoord(i))],
                  [j \in 1..nv |-> [Vehicle(j) EXCEPT !.max_orders = mo[j]]],
                  [Config EXCEPT !.balance_visits = bv]) :
        no \in 1..MaxOrders, nv \in 1..MaxVehicles, bv \in BOOLEAN,
        mo \in [1..MaxVehicles -> BalMaxOrderChoices]}

TypeOK ==
    /\ pc \in {"start", "filtered", "model", "table", "edges", "solved", "done", "error"}
    /\ http_status \in {0, 200, 500}

InitState(req) ==
    /\ request = req
    /\ pc = "start"
    /\ feasible_orders = <<>>
    /\ skill_unassigned = <<>>
    /\ depot_coords = <<>>
    /\ vehicle_start_depot_idx = <<>>
    /\ active_dims = <<>>
    /\ balanced_max_orders = None
    /\ vehicle_types = <<>>
    /\ clients = <<>>
    /\ osrm_data = None
    /\ edges = <<>>
    /\ solution = <<>>
    /\ response = None
    /\ http_status = 0
    /\ table_calls = 0
    /\ engine_calls = <<>>
    /\ best_solution = None
    /\ best_cost = None
    /\ best_run = -1

Init == \E req \in SkillRequests \cup LargeRequests : InitState(req)

\* ------------------------------------------------------------ solve(), steps
Return(resp) ==
    /\ response' = Some(resp)
    /\ http_status' = 200
    /\ pc' = "done"

\* if not orders: return _empty_response(...)
ReturnEmpty ==
    /\ pc = "start"
    /\ orders = <<>>
    /\ Return(empty_response(vehicles))
    /\ UNCHANGED <<request, feasible_orders, skill_unassigned, depot_coords,
                   vehicle_start_depot_idx, active_dims, balanced_max_orders,
                   vehicle_types, clients, osrm_data, edges, solution>>
    /\ UNCHANGED <<table_calls, search_vars>>

\* if not vehicles: every order unassigned, "No vehicles available"
ReturnNoVehicles ==
    /\ pc = "start"
    /\ orders # <<>>
    /\ vehicles = <<>>
    /\ Return(NoVehiclesResponse(orders))
    /\ UNCHANGED <<request, feasible_orders, skill_unassigned, depot_coords,
                   vehicle_start_depot_idx, active_dims, balanced_max_orders,
                   vehicle_types, clients, osrm_data, edges, solution>>
    /\ UNCHANGED <<table_calls, search_vars>>

\* the skills filter
SkillsFilter ==
    /\ pc = "start"
    /\ orders # <<>>
    /\ vehicles # <<>>
    /\ feasible_orders' = FeasibleOrders(orders, vehicles)
    /\ skill_unassigned' = SkillUnassigned(orders, vehicles)
    /\ pc' = "filtered"
    /\ UNCHANGED <<request, depot_coords, vehicle_start_depot_idx, active_dims,
                   balanced_max_orders, vehicle_types, clients, osrm_data, edges,
                   solution, response, http_status>>
    /\ UNCHANGED <<table_calls, search_vars>>

\* if not feasible_orders: return the skills entries alone
ReturnNoFeasible ==
    /\ pc = "filtered"
    /\ feasible_orders = <<>>
    /\ Return(SolveResponse(<<>>, skill_unassigned, ZeroMetrics))
    /\ UNCHANGED <<request, feasible_orders, skill_unassigned, depot_coords,
                   vehicle_start_depot_idx, active_dims, balanced_max_orders,
                   vehicle_types, clients, osrm_data, edges, solution>>
    /\ UNCHANGED <<table_calls, search_vars>>

\* depots, active dimensions, balance cap, vehicle types and clients
BuildModel ==
    /\ pc = "filtered"
    /\ feasible_orders # <<>>
    /\ LET reg == DepotRegistry(cfg, vehicles)
           dims == detect_active_dimensions(feasible_orders)
           bal == BalancedMaxOrders(cfg, Len(feasible_orders), Len(vehicles))
       IN  /\ depot_coords' = reg.depot_coords
           /\ vehicle_start_depot_idx' = reg.vehicle_start_depot_idx
           /\ active_dims' = dims
           /\ balanced_max_orders' = bal
           /\ vehicle_types' =
                 [j \in 1..Len(vehicles) |->
                     VehicleType(cfg, vehicles[j], j - 1, dims, bal,
                                 reg.vehicle_start_depot_idx[j])]
           /\ clients' =
                 [i \in 1..Len(feasible_orders) |-> Client(cfg, feasible_orders[i], dims)]
    /\ pc' = "model"
    /\ UNCHANGED <<request, feasible_orders, skill_unassigned, osrm_data, edges,
                   solution, response, http_status>>
    /\ UNCHANGED <<table_calls, search_vars>>

\* mutant of FetchOsrmTable: the table is asked for again before the routes
\* are reconstructed
FetchOsrmTableAgain ==
    /\ pc \in {"model", "solved"}
    /\ table_calls < NUM_STARTS
    /\ \E reply \in TableReplies(AllCoords(depot_coords, feasible_orders)) :
          osrm_data' = fetch_osrm_table(reply)
    /\ pc' = IF pc = "model" THEN "table" ELSE pc
    /\ UNCHANGED <<request, feasible_orders, skill_unassigned, depot_coords,
                   vehicle_start_depot_idx, active_dims, balanced_max_orders,
                   vehicle_types, clients, edges, solution, response, http_status>>
    /\ table_calls' = table_calls + 1
    /\ UNCHANGED search_vars

\* osrm_data = _fetch_osrm_table(all_lats, all_lngs)
FetchOsrmTable ==
    /\ pc = "model"
    /\ \E reply \in TableReplies(AllCoords(depot_coords, feasible_orders)) :
          osrm_data' = fetch_osrm_table(reply)
    /\ pc' = "table"
    /\ UNCHANGED <<request, feasible_orders, skill_unassigned, depot_coords,
                   vehicle_start_depot_idx, active_dims, balanced_max_orders,
                   vehicle_types, clients, edges, solution, response, http_status>>
    /\ table_calls' = table_calls + 1
    /\ UNCHANGED search_vars

\* the edge loop runs through
AddEdges ==
    /\ pc = "table"
    /\ ~(/\ UseOsrm(osrm_data)
          /\ ~EdgeReadsOk(osrm_data, Len(depot_coords) + Len(feasible_orders)))
    /\ edges' = Edges(cfg, osrm_data, AllCoords(depot_coords, feasible_orders))
    /\ pc' = "edges"
    /\ UNCHANGED <<request, feasible_orders, skill_unassigned, depot_coords,
                   vehicle_start_depot_idx, active_dims, balanced_max_orders,
                   vehicle_types, clients, osrm_data, solution, response, http_status>>
    /\ UNCHANGED <<table_calls, search_vars>>

\* the edge loop raises: solve() ends in main.py's except, HTTP 500
AddEdgesRaises ==
    /\ pc = "table"
    /\ UseOsrm(osrm_data)
    /\ ~EdgeReadsOk(osrm_data, Len(depot_coords) + Len(feasible_orders))
    /\ pc' = "error"
    /\ http_status' = 500
    /\ UNCHANGED <<request, feasible_orders, skill_unassigned, depot_coords,
                   vehicle_start_depot_idx, active_dims, balanced_max_orders,
                   vehicle_types, clients, osrm_data, edges, solution, response>>
    /\ UNCHANGED <<table_calls, search_vars>>

\* m.solve(...): the engine returns one of the solutions of the model
EngineSolve ==
    /\ pc = "edges"
    /\ ~UseMultiStart(Len(feasible_orders))
    /\ \E sol \in EngineResults(vehicle_types, clients, Len(depot_coords)) :
          /\ solution' = sol
          /\ engine_calls' = Append(engine_calls,
                EngineCall(SolveTimeout(cfg, Len(feasible_orders)), None, sol))
    /\ pc' = "solved"
    /\ UNCHANGED <<request, feasible_orders, skill_unassigned, depot_coords,
                   vehicle_start_depot_idx, active_dims, balanced_max_orders,
                   vehicle_types, clients, osrm_data, edges, response, http_status>>
    /\ UNCHANGED <<table_calls, best_solution, best_cost, best_run>>

\* one pass of "for run in range(NUM_STARTS)": m.solve with the run's seed;
\* a run without a route is skipped, a cheaper one becomes the best
MultiStartRun ==
    /\ pc = "edges"
    /\ UseMultiStart(Len(feasible_orders))
    /\ Len(engine_calls) < NUM_STARTS
    /\ \E sol \in EngineResults(vehicle_types, clients, Len(depot_coords)) :
          LET run == Len(engine_calls)
              cost == RunCost(cfg, vehicle_types, clients, edges,
                              Len(depot_coords), sol)
          IN  /\ engine_calls' = Append(engine_calls,
                    EngineCall(RunTimeout(cfg, Len(feasible_orders)),
                               Some(Seed(run)), sol))
              /\ IF sol # <<>> /\ Improves(cost, best_cost)
                 THEN /\ best_cost' = Some(cost)
                      /\ best_solution' = sol
                      /\ best_run' = run + 1
                 ELSE UNCHANGED <<best_solution, best_cost, best_run>>
    /\ UNCHANGED <<request, pc, feasible_orders, skill_unassigned, depot_coords,
                   vehicle_start_depot_idx, active_dims, balanced_max_orders,
                   vehicle_types, clients, osrm_data, edges, solution, response,
                   http_status, table_calls>>

\* solution = best_solution, after the last run
MultiStartKeep ==
    /\ pc = "edges"
    /\ UseMultiStart(Len(feasible_orders))
    /\ Len(engine_calls) = NUM_STARTS
    /\ solution' = best_solution
    /\ pc' = "solved"
    /\ UNCHANGED <<request, feasible_orders, skill_unassigned, depot_coords,
                   vehicle_start_depot_idx, active_dims, balanced_max_orders,
                   vehicle_types, clients, osrm_data, edges, response, http_status>>
    /\ UNCHANGED <<table_calls, search_vars>>

\* routes, unassigned and metrics; the route service is taken to answer
\* every geometry call of one request alike
BuildResponse ==
    /\ pc = "solved"
    /\ \E reply \in IF UseOsrm(osrm_data) THEN RouteReplies ELSE {None} :
          LET ctx == Ctx(cfg, osrm_data, depot_coords, feasible_orders)
              routes == [i \in 1..Len(solution) |->
                            Route(ctx, vehicles, vehicle_types,
                                  vehicle_start_depot_idx, DepotTw(cfg)[1],
                                  solution[i], reply)]
          IN  Return(SolveResponse(routes,
                                   Unassigned(skill_unassigned, feasible_orders,
                                              AssignedOrderIds(routes)),
                                   MetricsOf(routes)))
    /\ UNCHANGED <<request, feasible_orders, skill_unassigned, depot_coords,
                   vehicle_start_depot_idx, active_dims, balanced_max_orders,
                   vehicle_types, clients, osrm_data, edges, solution>>
    /\ UNCHANGED <<table_calls, search_vars>>

Next ==
    \/ ReturnEmpty
    \/ ReturnNoVehicles
    \/ SkillsFilter
    \/ ReturnNoFeasible
    \/ BuildModel
    \/ FetchOsrmTable
    \/ AddEdges
    \/ AddEdgesRaises
    \/ EngineSolve
    \/ MultiStartRun
    \/ MultiStartKeep
    \/ BuildResponse

Spec == Init /\ [][Next]_vars

InitRoute == \E req \in BaseRequests \cup LargeRequests \cup RouteRequests : InitState(req)

SpecRoute == InitRoute /\ [][Next]_vars

InitSearch == \E req \in BaseRequests \cup SearchRequests : InitState(req)

SpecSearch == InitSearch /\ [][Next]_vars

InitDepot ==
    \E req \in BaseRequests \cup LargeRequests \cup DepotRequests : InitState(req)

SpecDepot == InitDepot /\ [][Next]_vars

InitWindow ==
    \E req \in BaseRequests \cup LargeRequests \cup WindowRequests : InitState(req)

SpecWindow == InitWindow /\ [][Next]_vars

InitCap == \E req \in BaseRequests \cup LargeRequests \cup CapRequests : InitState(req)

SpecCap == InitCap /\ [][Next]_vars

InitBal == \E req \in BaseRequests \cup LargeRequests \cup BalRequests : InitState(req)

SpecBal == InitBal /\ [][Next]_vars

\* ================================================================ properties
Done == pc = "done"

Resp == Get(response)

\* every stop of the response, route after route
RECURSIVE Flatten(_)
Flatten(ss) == IF ss = <<>> THEN <<>> ELSE Head(ss) \o Flatten(Tail(ss))

AllStops == Flatten([i \in 1..Len(Resp.routes) |-> Resp.routes[i].stops])

Count(s, x) == Cardinality({k \in 1..Len(s) : s[k] = x})

StopIds == [k \in 1..Len(AllStops) |-> AllStops[k].order_id]

UnassignedIds == [k \in 1..Len(Resp.unassigned) |-> Resp.unassigned[k].order_id]

\* the request's own view of skills: some vehicle covers the order's skills
Covered(o) ==
    \E j \in 1..Len(vehicles) : Range(o.skills) \subseteq Range(vehicles[j].skills)

\* a non-empty skill set no single vehicle covers
SkillInfeasible(o) == o.skills # <<>> /\ ~Covered(o)

\* the order a visit (location index) of the engine's solution stands for
VisitedOrder(loc) == feasible_orders[(loc - Len(depot_coords)) + 1]

\* C1: with at least one order and one vehicle, an order whose non-empty
\* skill set no single vehicle covers is listed in unassigned with the
\* skills reason, is no client of the model, and is no stop of any route.
InvC1 ==
    (orders # <<>> /\ vehicles # <<>>) =>
        \A i \in 1..Len(orders) :
            SkillInfeasible(orders[i]) =>
                /\ \A c \in 1..Len(clients) : clients[c].name # orders[i].id
                /\ \A r \in 1..Len(solution) : \A k \in 1..Len(solution[r].visits) :
                      VisitedOrder(solution[r].visits[k]).id # orders[i].id
                /\ Done =>
                      /\ Count(StopIds, orders[i].id) = 0
                      /\ \E u \in 1..Len(Resp.unassigned) :
                            /\ Resp.unassigned[u].order_id = orders[i].id
                            /\ Resp.unassigned[u].reason =
                                  <<"No vehicle has required skills: ", orders[i].skills>>

\* a response with a route, returned for a request holding an order no
\* vehicle has the skills for
WitC1 ==
    /\ Done
    /\ Resp.routes # <<>>
    /\ \E i \in 1..Len(orders) : SkillInfeasible(orders[i])

\* ids of the orders no vehicle covers, in input order
InfeasibleIds ==
    LET sel == SelectSeq(orders, LAMBDA o : ~Covered(o))
    IN  [k \in 1..Len(sel) |-> sel[k].id]

\* ids of the covered orders that are no stop, in input order
UnvisitedFeasibleIds ==
    LET sel == SelectSeq(orders, LAMBDA o : Covered(o) /\ Count(StopIds, o.id) = 0)
    IN  [k \in 1..Len(sel) |-> sel[k].id]

\* C2: in every response each input order is a stop of exactly one route
\* or an entry of unassigned, never both, never neither; unassigned is the
\* skill-infeasible orders followed by the feasible orders no route visits,
\* these with the capacity/time reason; total_stops plus the number of
\* unassigned entries is the number of orders.
InvC2 ==
    Done =>
        /\ \A i \in 1..Len(orders) :
              Count(StopIds, orders[i].id) + Count(UnassignedIds, orders[i].id) = 1
        /\ UnassignedIds = InfeasibleIds \o UnvisitedFeasibleIds
        /\ \A u \in 1..Len(Resp.unassigned) :
              u > Len(InfeasibleIds) =>
                 Resp.unassigned[u].reason[1] =
                    "Could not fit in any vehicle route (capacity/time constraints)"
        /\ Resp.metrics.total_stops + Len(Resp.unassigned) = Len(orders)

\* a response with a stop and with an unassigned order
WitC2 ==
    /\ Done
    /\ AllStops # <<>>
    /\ Resp.unassigned # <<>>

\* C6: a request without orders is answered with no route, no unassigned
\* order and zero distance, duration, routes and stops.
InvC6 ==
    orders = <<>> =>
        /\ pc \in {"start", "done"}
        /\ Done =>
              /\ Resp.routes = <<>>
              /\ Resp.unassigned = <<>>
              /\ Resp.metrics.total_distance = 0
              /\ Resp.metrics.total_duration = 0
              /\ Resp.metrics.total_routes = 0
              /\ Resp.metrics.total_stops = 0

\* the answer to a request with vehicles and no orders
WitC6 == Done /\ orders = <<>> /\ vehicles # <<>>

\* C7: orders but no vehicles: no route, every order once in unassigned
\* with "No vehicles available", skilled orders too; the request succeeds.
InvC7 ==
    (orders # <<>> /\ vehicles = <<>>) =>
        /\ pc \in {"start", "done"}
        /\ Done =>
              /\ http_status = 200
              /\ Resp.routes = <<>>
              /\ \A i \in 1..Len(orders) :
                    /\ Count(UnassignedIds, orders[i].id) = 1
                    /\ \A u \in 1..Len(Resp.unassigned) :
                          Resp.unassigned[u].order_id = orders[i].id =>
                             Resp.unassigned[u].reason = <<"No vehicles available", <<>> >>

\* the answer to a request with a skilled order and no vehicle
WitC7 ==
    /\ Done
    /\ vehicles = <<>>
    /\ \E i \in 1..Len(orders) : orders[i].skills # <<>>

\* the geodesic cost of the leg a -> b under the request's traffic factor
GeodesicLeg(a, b) == <<GeoDist(a, b), ApplyTraffic(cfg, GeoTime(GeoDist(a, b)))>>

\* the points a route runs through: start, stops, return point if any
PathDist(path) ==
    SumSeq([k \in 1..(Len(path) - 1) |-> GeodesicLeg(path[k], path[k + 1])[1]])

PathTime(path) ==
    SumSeq([k \in 1..(Len(path) - 1) |-> GeodesicLeg(path[k], path[k + 1])[2]])

\* C8: however the routing-table call ends badly, the request is no HTTP
\* 500; on the fallback every edge and every reconstructed leg is geodesic.
InvC8 ==
    /\ http_status # 500
    /\ (pc \in {"edges", "solved", "done"} /\ ~UseOsrm(osrm_data)) =>
          LET coords == AllCoords(depot_coords, feasible_orders)
          IN  \A i, j \in 0..(Len(coords) - 1) :
                 i # j =>
                    /\ edges[i][j].distance =
                          PyRound(GeodesicLeg(coords[i + 1], coords[j + 1])[1], 10)
                    /\ edges[i][j].duration =
                          GeodesicLeg(coords[i + 1], coords[j + 1])[2]
    /\ (Done /\ feasible_orders # <<>> /\ ~UseOsrm(osrm_data)) =>
          \A r \in 1..Len(Resp.routes) :
             /\ Resp.routes[r].total_distance = PathDist(Resp.routes[r].route_coords)
             /\ Resp.routes[r].total_travel_time = PathTime(Resp.routes[r].route_coords)

\* C10: with zero routes or one route balance_score is 1.0; with more it is
\* max(0, 1 - CV/2) of the stop counts, within [0, 1].
InvC10 ==
    Done =>
        LET score == Resp.metrics.balance_score
        IN  /\ Len(Resp.routes) <= 1 => score = Some(1000)
            /\ Len(Resp.routes) > 1 =>
                  /\ score = Some(compute_balance_score(
                                [r \in 1..Len(Resp.routes) |-> Len(Resp.routes[r].stops)]))
                  /\ Get(score) \in 0..1000

\* ---------------------------------------------------- route reconstruction
RCtx == Ctx(cfg, osrm_data, depot_coords, feasible_orders)

\* the start depot index of route r of the solution
RStart(r) == vehicle_start_depot_idx[vehicle_types[solution[r].vehicle_type + 1].name + 1]

\* <<leg_dist, leg_time>> of the leg into stop k of route r
RLeg(r, k) ==
    ReconLeg(RCtx, IF k = 1 THEN RStart(r) ELSE solution[r].visits[k - 1],
             solution[r].visits[k])

\* the legs start -> stop1 -> ... -> last stop, summed
OutDist(r) == SumSeq([k \in 1..Len(solution[r].visits) |-> RLeg(r, k)[1]])

OutTime(r) == SumSeq([k \in 1..Len(solution[r].visits) |-> RLeg(r, k)[2]])

\* start and stops of route r as coordinates
OutCoords(r) ==
    <<depot_coords[RStart(r) + 1]>>
    \o [k \in 1..Len(Resp.routes[r].stops) |->
           <<Resp.routes[r].stops[k].lat, Resp.routes[r].stops[k].lng>>]

\* <<dist, time>> of the leg last stop -> main depot (location index 0)
HomeLeg(r) == ReconLeg(RCtx, solution[r].visits[Len(solution[r].visits)], 0)

\* C5: under OPEN_END a route's distance and travel time are the legs
\* start -> stop1 -> ... -> last stop and its coordinate sequence ends at the
\* last stop; under RETURN_TO_DEPOT the last leg of the totals and of the
\* coordinate sequence goes to the main depot, own origin or not.
InvC5 ==
    Done =>
        \A r \in 1..Len(Resp.routes) :
            /\ cfg.route_end_mode = Some("OPEN_END") =>
                  /\ Resp.routes[r].total_distance = OutDist(r)
                  /\ Resp.routes[r].total_travel_time = OutTime(r)
                  /\ Resp.routes[r].route_coords = OutCoords(r)
            /\ cfg.route_end_mode = Some("RETURN_TO_DEPOT") =>
                  /\ Resp.routes[r].total_distance = OutDist(r) + HomeLeg(r)[1]
                  /\ Resp.routes[r].total_travel_time = OutTime(r) + HomeLeg(r)[2]
                  /\ Resp.routes[r].route_coords =
                        Append(OutCoords(r), <<cfg.depot.lat, cfg.depot.lng>>)

\* a RETURN_TO_DEPOT route of a vehicle that starts from its own origin
WitC5 ==
    /\ Done
    /\ cfg.route_end_mode = Some("RETURN_TO_DEPOT")
    /\ \E r \in 1..Len(Resp.routes) : RStart(r) # 0

\* the input order a stop stands for
OrderOfStop(st) == CHOOSE o \in Range(orders) : o.id = st.order_id

\* the clock before the leg into stop k
ClockBefore(stops, k) ==
    IF k = 1 THEN DepotTw(cfg)[1]
    ELSE stops[k - 1].arrival_time + stops[k - 1].waiting_time + stops[k - 1].service_time

OrderTwStart(o) == parse_tw(o.time_window_start, o.time_window_end)[1]

\* C9: the clock starts at the depot's opening time; a stop's arrival_time
\* is the clock plus the stop's leg duration, its waiting_time is
\* max(0, window start - arrival_time), and the clock for the next leg is
\* arrival_time + waiting_time + service duration; arrivals never decrease
\* and arrival_time + waiting_time >= window start.
InvC9 ==
    Done =>
        \A r \in 1..Len(Resp.routes) :
            LET stops == Resp.routes[r].stops
            IN  \A k \in 1..Len(stops) :
                   LET o == OrderOfStop(stops[k])
                   IN  /\ stops[k].arrival_time = ClockBefore(stops, k) + RLeg(r, k)[2]
                       /\ stops[k].waiting_time =
                             Max(0, OrderTwStart(o) - stops[k].arrival_time)
                       /\ stops[k].service_time = ServiceDur(o)
                       /\ k > 1 => stops[k].arrival_time >= stops[k - 1].arrival_time
                       /\ stops[k].arrival_time + stops[k].waiting_time >= OrderTwStart(o)

\* a route that waits at its first stop and drives on to a second
WitC9 ==
    /\ Done
    /\ \E r \in 1..Len(Resp.routes) :
          /\ Len(Resp.routes[r].stops) >= 2
          /\ Resp.routes[r].stops[1].waiting_time > 0

\* --------------------------------------------------------------- capacity
VehicleOfRoute(rt) == CHOOSE v \in Range(vehicles) : v.id = rt.vehicle_id

RouteOrders(rt) == [k \in 1..Len(rt.stops) |-> OrderOfStop(rt.stops[k])]

OrZero(opt) == IF opt = None THEN 0 ELSE Get(opt)

IsActive(d) == \E k \in 1..Len(active_dims) : active_dims[k] = d

\* C3: on every returned route, in every active dimension, the demands of
\* the orders at the stops sum to no more than the vehicle's capacity.
InvC3 ==
    Done =>
        \A r \in 1..Len(Resp.routes) :
            LET v == VehicleOfRoute(Resp.routes[r])
                os == RouteOrders(Resp.routes[r])
                n == Len(os)
            IN  /\ IsActive("weight") =>
                      SumSeq([k \in 1..n |-> os[k].weight]) <= v.max_weight
                /\ IsActive("volume") =>
                      SumSeq([k \in 1..n |-> os[k].volume]) <= v.max_volume
                /\ (IsActive("value") /\ v.max_value # None) =>
                      SumSeq([k \in 1..n |-> OrZero(os[k].value)]) <= Get(v.max_value)
                /\ (IsActive("units") /\ v.max_units # None) =>
                      SumSeq([k \in 1..n |-> OrZero(os[k].units)]) <= Get(v.max_units)
                /\ (IsActive("orders") /\ v.max_orders # None) =>
                      n <= Get(v.max_orders)

\* ceil(N/V) + 1, or the vehicle's own max_orders when stated and smaller
BalanceCap(v) ==
    LET cap == CeilDiv(Len(feasible_orders), Len(vehicles)) + 1
    IN  IF v.max_orders = None THEN cap ELSE Min(cap, Get(v.max_orders))

\* C4: with balance_visits on, each vehicle's 'orders' capacity is
\* min(ceil(N/V) + 1, its own max_orders when stated), and no returned
\* route has more stops than that.
InvC4 ==
    (cfg.balance_visits /\ vehicles # <<>>) =>
        /\ \A j \in 1..Len(vehicle_types) :
              vehicle_types[j].capacity[Len(active_dims)] = BalanceCap(vehicles[j])
        /\ Done =>
              \A r \in 1..Len(Resp.routes) :
                 Len(Resp.routes[r].stops) <= BalanceCap(VehicleOfRoute(Resp.routes[r]))

\* ------------------------------------------------------- fallback edges
\* the table call gave nothing and the edges are in the model
FallbackEdges == pc \in {"edges", "solved", "done"} /\ ~UseOsrm(osrm_data)

LocCoords == AllCoords(depot_coords, feasible_orders)

\* C11 as stated: on the fallback every off-diagonal edge is exactly
\* haversine x 1.3 (here in dm, the edge in m) and that distance over the
\* default speed times the traffic multiplier, unrounded; self-loops are 0.
InvC11Exact ==
    FallbackEdges =>
        \A i, j \in 0..(Len(LocCoords) - 1) :
            IF i = j THEN edges[i][j] = [distance |-> 0, duration |-> 0]
            ELSE /\ 10 * edges[i][j].distance =
                       GeodesicLeg(LocCoords[i + 1], LocCoords[j + 1])[1]
                 /\ edges[i][j].duration =
                       GeodesicLeg(LocCoords[i + 1], LocCoords[j + 1])[2]

\* C11 amended: on the fallback every off-diagonal edge is the geodesic
\* distance and the geodesic duration each rounded to the nearest integer
\* (halves to even); self-loops are 0.
InvC11 ==
    FallbackEdges =>
        \A i, j \in 0..(Len(LocCoords) - 1) :
            IF i = j THEN edges[i][j] = [distance |-> 0, duration |-> 0]
            ELSE /\ edges[i][j].distance =
                       PyRound(GeodesicLeg(LocCoords[i + 1], LocCoords[j + 1])[1], 10)
                 /\ edges[i][j].duration =
                       PyRound(GeodesicLeg(LocCoords[i + 1], LocCoords[j + 1])[2], 1)

\* fallback edges under heavy traffic, one of them rounded up
WitC11 ==
    /\ FallbackEdges
    /\ cfg.traffic_factor = Some(100)
    /\ \E i, j \in 0..(Len(LocCoords) - 1) :
          /\ i # j
          /\ 10 * edges[i][j].distance >
                GeodesicLeg(LocCoords[i + 1], LocCoords[j + 1])[1]

\* ----------------------------------------------------- skills on routes
\* C12: every stop of every returned route is served by a vehicle whose
\* skills include the skills its order requires.
InvC12 ==
    Done =>
        \A r \in 1..Len(Resp.routes) :
            \A k \in 1..Len(Resp.routes[r].stops) :
                Range(OrderOfStop(Resp.routes[r].stops[k]).skills)
                    \subseteq Range(VehicleOfRoute(Resp.routes[r]).skills)


\* ------------------------------------------------------------ multi-start
MultiStart == UseMultiStart(Len(feasible_orders))

\* the search step is over: the model was built, its edges added and the
\* solution retained (the early returns never get there)
Searched == pc = "solved" \/ (pc = "done" /\ edges # <<>>)

\* the runs that returned a solution with at least one route
RoutedRuns == {k \in 1..Len(engine_calls) : engine_calls[k].result # <<>>}

\* the objective-specific cost of run k's solution
CostOfRun(k) ==
    LET dist == SolDistance(vehicle_types, edges, engine_calls[k].result)
        dur == SolDuration(vehicle_types, clients, edges, Len(depot_coords),
                           engine_calls[k].result)
    IN  CASE cfg.objective = "DISTANCE" -> dist
          [] cfg.objective = "TIME" -> dur
          [] OTHER -> dist + dur

\* C13: in multi-start mode, after the three runs, the retained solution is
\* that of the earliest run among those that returned a route and have the
\* least objective-specific cost (DISTANCE: distance, TIME: duration, else
\* their sum); runs without a solution are skipped; when no run returned a
\* route, no solution is retained, the response has no route and every
\* feasible order is unassigned.
InvC13 ==
    (Searched /\ MultiStart) =>
        /\ Len(engine_calls) = NUM_STARTS
        /\ IF RoutedRuns = {}
           THEN /\ solution = None
                /\ Done => /\ Resp.routes = <<>>
                           /\ \A i \in 1..Len(feasible_orders) :
                                 Count(UnassignedIds, feasible_orders[i].id) = 1
           ELSE \E k \in RoutedRuns :
                   /\ solution = engine_calls[k].result
                   /\ best_run = k
                   /\ \A j \in RoutedRuns : CostOfRun(k) <= CostOfRun(j)
                   /\ \A j \in RoutedRuns : j < k => CostOfRun(k) < CostOfRun(j)

\* two runs tie at the least cost after a run without a solution, and the
\* response is out
WitC13 ==
    /\ Done /\ MultiStart
    /\ engine_calls[1].result = <<>>
    /\ engine_calls[2].result # engine_calls[3].result
    /\ RoutedRuns = {2, 3}
    /\ CostOfRun(2) = CostOfRun(3)
    /\ Resp.routes # <<>>


\* ---------------------------------------------------------- search budget
\* B: the configured timeout, 60 when it is not positive
BudgetB == IF cfg.timeout_seconds <= 0 THEN 60 ELSE cfg.timeout_seconds

\* T: the base budget for n feasible orders
BudgetT ==
    LET n == Len(feasible_orders)
    IN  CASE n <= 3 -> Min(BudgetB, 5)
          [] n > 3 /\ n <= 10 -> Min(BudgetB, 15)
          [] n > 10 /\ n <= 30 -> Min(BudgetB, 30)
          [] n > 30 /\ n <= 100 -> Min(BudgetB, 60)
          [] OTHER -> BudgetB

\* C14: once the search step is over, with B and T as above: for at most 10
\* feasible orders the engine was invoked exactly once, with budget T; for
\* more than 10 exactly three times, with the seeds 1, 43 and 85 in turn,
\* each run with budget max(5, T div 3).
InvC14 ==
    Searched =>
        IF Len(feasible_orders) <= 10
        THEN /\ Len(engine_calls) = 1
             /\ engine_calls[1].timeout = BudgetT
        ELSE /\ Len(engine_calls) = 3
             /\ [k \in 1..3 |-> engine_calls[k].seed] = <<Some(1), Some(43), Some(85)>>
             /\ \A k \in 1..3 : engine_calls[k].timeout = Max(5, BudgetT \div 3)

\* a search over more than 100 orders with a budget of 90 seconds: three
\* runs of 30 seconds
WitC14 ==
    /\ Searched
    /\ Len(feasible_orders) > 100
    /\ cfg.timeout_seconds = 90
    /\ \A k \in 1..3 : engine_calls[k].timeout = 30


\* ------------------------------------------------------ one table, shared
\* <<dist, time>> of the leg i -> j as the table result held now gives it
TableLeg(i, j) == ReconLeg(RCtx, i, j)

\* the edge costs are the held table result's
EdgesFromTable ==
    \A i, j \in DOMAIN edges :
        i # j => edges[i][j] = [distance |-> PyRound(TableLeg(i, j)[1], 10),
                                duration |-> PyRound(TableLeg(i, j)[2], 1)]

\* the legs of route r: start -> stops, and the return leg unless OPEN_END
LegsOf(r) ==
    LET vs == solution[r].visits
        out == [k \in 1..Len(vs) |-> TableLeg(IF k = 1 THEN RStart(r) ELSE vs[k - 1], vs[k])]
    IN  IF cfg.route_end_mode = Some("OPEN_END") THEN out
        ELSE Append(out, TableLeg(vs[Len(vs)],
                                  IF cfg.route_end_mode \in {Some("RETURN_TO_DEPOT"),
                                                            Some("SPECIFIC_DEPOT")}
                                  THEN 0 ELSE RStart(r)))

\* C15: the routing table is asked for at most once in a request, exactly
\* once before edges are added, whatever the answer; the result held then
\* is the one the edge costs come from and, unchanged, the one every leg of
\* the reconstructed routes comes from.
InvC15 ==
    /\ table_calls <= 1
    /\ pc \in {"table", "edges", "solved", "error"} => table_calls = 1
    /\ (pc \in {"edges", "solved"} \/ (Done /\ edges # <<>>)) =>
          /\ table_calls = 1
          /\ EdgesFromTable
    /\ (Done /\ edges # <<>>) =>
          \A r \in 1..Len(Resp.routes) :
              /\ Resp.routes[r].total_distance =
                    SumSeq([k \in 1..Len(LegsOf(r)) |-> LegsOf(r)[k][1]])
              /\ Resp.routes[r].total_travel_time =
                    SumSeq([k \in 1..Len(LegsOf(r)) |-> LegsOf(r)[k][2]])

\* a response with a route, built from the matrices of the one table call
WitC15 ==
    /\ Done
    /\ table_calls = 1
    /\ osrm_data # None
    /\ Resp.routes # <<>>


\* --------------------------------------------------------- depot registry
\* the registry is built
Registered == depot_coords # <<>>

\* a coordinate rounded to 6 decimal places, in whole micro-degrees
Rounded6(c) == <<PyRound(c[1], 2), PyRound(c[2], 2)>>

\* the coordinate of matrix location i, read off the fallback edge costs:
\* c is at i when every edge from i costs what the geodesic from c costs
LocatedAt(i, c) ==
    \A j \in DOMAIN edges :
        j # i => edges[i][j].distance = PyRound(GeodesicLeg(c, LocCoords[j + 1])[1], 10)

\* C16: once the registry is built, index 0 holds the main depot; no two
\* entries round to the same coordinate at 6 decimal places; every vehicle
\* has a start depot index within the registry, 0 without an origin and
\* otherwise that of the entry its rounded origin matches; and every entry
\* is a matrix location, in registry order, before the orders.
InvC16 ==
    Registered =>
        /\ depot_coords[1] = <<cfg.depot.lat, cfg.depot.lng>>
        /\ \A a, b \in 1..Len(depot_coords) :
              a # b => Rounded6(depot_coords[a]) # Rounded6(depot_coords[b])
        /\ Len(vehicle_start_depot_idx) = Len(vehicles)
        /\ \A j \in 1..Len(vehicles) :
              /\ vehicle_start_depot_idx[j] \in 0..(Len(depot_coords) - 1)
              /\ IF vehicles[j].origin_lat = None \/ vehicles[j].origin_lng = None
                 THEN vehicle_start_depot_idx[j] = 0
                 ELSE Rounded6(depot_coords[vehicle_start_depot_idx[j] + 1])
                         = Rounded6(<<Get(vehicles[j].origin_lat),
                                      Get(vehicles[j].origin_lng)>>)
        /\ edges # <<>> =>
              /\ DOMAIN edges = 0..(Len(depot_coords) + Len(feasible_orders) - 1)
              /\ osrm_data # None =>
                    /\ Get(osrm_data).distances # None =>
                          Len(Get(osrm_data).distances) = Len(depot_coords) + Len(feasible_orders)
              /\ osrm_data = None =>
                    /\ \A d \in 1..Len(depot_coords) : LocatedAt(d - 1, depot_coords[d])
                    /\ \A o \in 1..Len(feasible_orders) :
                          LocatedAt(Len(depot_coords) + o - 1,
                                    <<feasible_orders[o].lat, feasible_orders[o].lng>>)

\* two vehicles whose different origins round alike share an entry past the
\* main depot, and the fallback edges are in
WitC16 ==
    /\ Registered
    /\ Len(vehicles) = 2
    /\ ~(vehicles[1].origin_lng = vehicles[2].origin_lng)
    /\ vehicle_start_depot_idx = <<1, 1>>
    /\ edges # <<>>
    /\ osrm_data = None


\* -------------------------------------------------------------- end depot
MainDepotModes == {Some("RETURN_TO_DEPOT"), Some("SPECIFIC_DEPOT")}

\* C17: the end depot of every vehicle type given to the engine is the main
\* depot (index 0) under RETURN_TO_DEPOT and SPECIFIC_DEPOT and the
\* vehicle's own start depot under DRIVER_ORIGIN, OPEN_END, no mode and any
\* other mode; unless the mode is OPEN_END, a reconstructed route ends with
\* a return to that same end depot.
InvC17 ==
    /\ \A j \in 1..Len(vehicle_types) :
          /\ vehicle_types[j].start_depot = vehicle_start_depot_idx[j]
          /\ vehicle_types[j].end_depot =
                IF cfg.route_end_mode \in MainDepotModes THEN 0
                ELSE vehicle_start_depot_idx[j]
    /\ (Done /\ edges # <<>> /\ cfg.route_end_mode # Some("OPEN_END")) =>
          \A r \in 1..Len(Resp.routes) :
              LET vt == vehicle_types[solution[r].vehicle_type + 1]
                  rc == Resp.routes[r].route_coords
                  last == solution[r].visits[Len(solution[r].visits)]
              IN  /\ Len(rc) = Len(solution[r].visits) + 2
                  /\ rc[Len(rc)] = depot_coords[vt.end_depot + 1]
                  /\ Resp.routes[r].total_distance =
                        OutDist(r) + TableLeg(last, vt.end_depot)[1]
                  /\ Resp.routes[r].total_travel_time =
                        OutTime(r) + TableLeg(last, vt.end_depot)[2]

\* a SPECIFIC_DEPOT route of a vehicle that starts from its own origin
WitC17 ==
    /\ Done
    /\ cfg.route_end_mode = Some("SPECIFIC_DEPOT")
    /\ \E r \in 1..Len(Resp.routes) : RStart(r) # 0


\* ------------------------------------------------------- client windows
\* the resolved window (s, e) of an order, in seconds from midnight
WindowStart(o) ==
    IF o.time_window_start = None THEN 0
    ELSE Get(o.time_window_start)[1] * 3600 + Get(o.time_window_start)[2] * 60

WindowEnd(o) ==
    IF o.time_window_end = None THEN 86400
    ELSE Get(o.time_window_end)[1] * 3600 + Get(o.time_window_end)[2] * 60

ClientOfStop(st) ==
    clients[CHOOSE i \in 1..Len(feasible_orders) : feasible_orders[i].id = st.order_id]

\* C19: the waiting_time of every stop of every returned route is computed
\* from the window start given to the engine for the stop's client, under
\* flexible_time_windows too: it is max(0, tw_early - arrival_time).
InvC19 ==
    (Done /\ edges # <<>>) =>
        \A r \in 1..Len(Resp.routes) :
            \A k \in 1..Len(Resp.routes[r].stops) :
                LET st == Resp.routes[r].stops[k]
                IN  st.waiting_time = Max(0, ClientOfStop(st).tw_early - st.arrival_time)

====
